---------------------------- MODULE Spec2Model ----------------------------
(***************************************************************************)
(* The resampling-evaluation run of sampling.py: the constructor of        *)
(* Sampling (log toggle, loading, the strategy x label loop) and the       *)
(* methods it calls (log_file, set_X, set_y, sample, model_and_score).     *)
(*                                                                         *)
(* Abstractions.  A feature row is its row number in the loaded table; a   *)
(* frame is a column set and a sequence of rows.  The samplers of          *)
(* imblearn and the scorers of sklearn are library code: an over-sampler   *)
(* appends rows of the minority classes chosen by its random state, a      *)
(* library call may raise where the library can, and sklearn's length      *)
(* check of (X, y) is kept.  The values of a prediction are not modelled,  *)
(* its length is.                                                          *)
(***************************************************************************)
EXTENDS Integers, Sequences, FiniteSets, TLC

\* ------------------------------------------------------------------ bounds
MaxRows == 5
MaxSeed == 1

\* --------------------------------------------------------------- constants
\* self.random_state
random_state == 20
\* SMOTE(random_state=0)
smote_random_state == 0

scale_cols ==
    {"duration", "src_bytes", "dst_bytes", "land", "wrong_fragment", "urgent", "hot",
     "num_failed_logins", "logged_in", "num_compromised", "root_shell", "su_attempted",
     "num_root", "num_file_creations", "num_shells", "num_access_files", "is_guest_login",
     "count", "srv_count", "serror_rate", "rerror_rate", "diff_srv_rate",
     "srv_diff_host_rate", "dst_host_count", "dst_host_srv_count",
     "dst_host_diff_srv_rate", "dst_host_same_src_port_rate",
     "dst_host_srv_diff_host_rate"}

\* The two label columns of the target table, in the order the loop uses them.
Labels == <<"attack_category", "target">>

\* The label pairs a record of the dataset can carry (target refines
\* attack_category).
RowTypes ==
    { [attack_category |-> "normal", target |-> "normal"],
      [attack_category |-> "dos",    target |-> "smurf"],
      [attack_category |-> "dos",    target |-> "neptune"] }

\* A fixed order of the class values, used to enumerate classes.
ClassOrder == <<"normal", "dos", "smurf", "neptune">>

\* The tables read_csv can deliver: 1..MaxRows records.
Datasets == UNION { [1..n -> RowTypes] : n \in 1..MaxRows }

EmptyFrame == [cols |-> {}, rows |-> <<>>]

\* The sampler tuple of the for statement, in order, with the constructor
\* arguments that matter: the class name, and random_state (seeded is FALSE
\* where none is passed, and seed then means nothing).
SamplerTuple ==
    << [cls |-> "Original",          seeded |-> FALSE, seed |-> 0],
       [cls |-> "RandomOverSampler", seeded |-> FALSE, seed |-> 0],
       [cls |-> "SMOTE",             seeded |-> TRUE,  seed |-> smote_random_state],
       [cls |-> "ADASYN",            seeded |-> TRUE,  seed |-> random_state],
       [cls |-> "BorderlineSMOTE",   seeded |-> TRUE,  seed |-> random_state],
       [cls |-> "BorderlineSMOTE",   seeded |-> TRUE,  seed |-> random_state],
       [cls |-> "SVMSMOTE",          seeded |-> TRUE,  seed |-> random_state],
       [cls |-> "SMOTENC",           seeded |-> TRUE,  seed |-> random_state] >>

\* ------------------------------------------------------------------- state
VARIABLES
    pc,         \* position in Sampling.__init__
    error,      \* the exception that ended the run ("none" while running)
    logfile,    \* self.logfile: "None", "file" (a file object) or "False"
    file_open,  \* whether the log file is open
    stdout,     \* sys.stdout: "original" or "logfile"
    traced,     \* what each log_file() call found: "none", "on" or "off"
    full,       \* self.full
    X,          \* self.X
    y,          \* self.y
    samplers,   \* the tuple the for statement iterates
    i,          \* index of the current sampler
    label,      \* the local variable label
    res_x,      \* result of sample()
    res_y,
    title,
    y_pred,     \* result of cross_val_predict
    scores,     \* self.scores, as its sequence of keys
    trace       \* the method calls of the loop that returned, in order

vars == <<pc, error, logfile, file_open, stdout, traced, full, X, y, samplers,
          i, label, res_x, res_y, title, y_pred, scores, trace>>

logvars == <<logfile, file_open, stdout, traced>>
datavars == <<full, X, y>>
resvars == <<res_x, res_y, title, y_pred>>

\* ----------------------------------------------------------------- helpers
Column(table, name) == [k \in 1..Len(table) |-> table[k][name]]

Classes(yv) == { yv[k] : k \in 1..Len(yv) }

ClassCount(yv, c) == Cardinality({ k \in 1..Len(yv) : yv[k] = c })

MaxCount(yv) ==
    CHOOSE m \in 0..Len(yv) :
        /\ \A c \in Classes(yv) : ClassCount(yv, c) <= m
        /\ (yv = <<>> \/ \E c \in Classes(yv) : ClassCount(yv, c) = m)

\* The positions of class c in yv, ascending.
RECURSIVE ClassIdx(_, _, _)
ClassIdx(yv, c, k) ==
    IF k > Len(yv) THEN <<>>
    ELSE (IF yv[k] = c THEN <<k>> ELSE <<>>) \o ClassIdx(yv, c, k + 1)

\* The n-th draw of a generator seeded with seed, among cands.
Pick(seed, cands, n) == cands[((seed + n) % Len(cands)) + 1]

\* The positions an over-sampler adds for class c: as many as the class
\* lacks to the majority count.
AddedIdx(yv, c, seed) ==
    [n \in 1..(MaxCount(yv) - ClassCount(yv, c)) |-> Pick(seed, ClassIdx(yv, c, 1), n)]

RECURSIVE AllAddedIdx(_, _, _)
AllAddedIdx(yv, seed, k) ==
    IF k > Len(ClassOrder) THEN <<>>
    ELSE (IF ClassOrder[k] \in Classes(yv) THEN AddedIdx(yv, ClassOrder[k], seed) ELSE <<>>)
         \o AllAddedIdx(yv, seed, k + 1)

\* An over-sampler of imblearn: the input followed by the added minority rows.
Oversample(x, yv, seed) ==
    LET add == AllAddedIdx(yv, seed, 1)
    IN  << [cols |-> x.cols, rows |-> x.rows \o [n \in 1..Len(add) |-> x.rows[add[n]]]],
           yv \o [n \in 1..Len(add) |-> yv[add[n]]] >>

\* Original.fit_resample
Original_fit_resample_oversampling(x, yv) == Oversample(x, yv, random_state)
Original_fit_resample(x, yv) == <<x, yv>>

\* sampler.fit_resample(x, y), with the state of its random generator.
fit_resample(s, x, yv, seed) ==
    IF s.cls = "Original" THEN Original_fit_resample(x, yv) ELSE Oversample(x, yv, seed)

\* The random states a sampler can run with: its random_state, or any when
\* none was given.
SeedsOf(s) == IF s.seeded THEN {s.seed} ELSE 0..MaxSeed

\* Whether fit_resample returns or raises: the identity never raises, every
\* over-sampler rejects a single-class y, the neighbour-based ones can also
\* raise on a class that is too small.
SampleOutcomes(s, yv) ==
    IF s.cls = "Original" THEN {"ok"}
    ELSE IF Cardinality(Classes(yv)) < 2 THEN {"raise"}
    ELSE IF s.cls = "RandomOverSampler" THEN {"ok"}
    ELSE {"ok", "raise"}

\* sampler.__class__.__name__
Title(s) == s.cls

\* The resampled pairs a run can see for sampler s on (x, yv).
Resamples(s, x, yv) == { fit_resample(s, x, yv, seed) : seed \in SeedsOf(s) }

\* The label vector model_and_score hands to cross_val_predict: self.y.
cross_val_predict_y == y

\* --------------------------------------------------------------- transitions
\* An exception nobody catches: __init__ is left where it was raised.
AbortRestoring(kind) ==
    /\ pc' = "aborted"
    /\ error' = kind
    /\ stdout' = "original"
    /\ file_open' = FALSE
    /\ logfile' = "False"
    /\ UNCHANGED <<traced, full, X, y, samplers, i, label, res_x, res_y, title,
                   y_pred, scores, trace>>
Abort(kind) ==
    /\ pc' = "aborted"
    /\ error' = kind
    /\ UNCHANGED <<logfile, file_open, stdout, traced, full, X, y, samplers, i,
                   label, res_x, res_y, title, y_pred, scores, trace>>

\* log_file(): what it leaves in (logfile, file_open, stdout), given what
\* gettrace shows ("none": no sys.gettrace, "on": a trace function is set,
\* "off": none is set).  open() is taken to succeed.
LogFileResult(t, lf, fo, so) ==
    IF t \in {"none", "on"} THEN [logfile |-> lf, file_open |-> fo, stdout |-> so]
    ELSE IF lf = "file" THEN [logfile |-> "False", file_open |-> FALSE, stdout |-> "original"]
    ELSE [logfile |-> "file", file_open |-> TRUE, stdout |-> "logfile"]

\* self.log_file(), at the start and at the end of __init__; the second call
\* is followed by print('Finished').
LogFile ==
    /\ pc \in {"log_start", "log_end"}
    /\ \E t \in {"none", "on", "off"}, opened \in BOOLEAN :
         IF t = "off" /\ logfile # "file" /\ ~opened
         THEN Abort("open")
         ELSE LET r == LogFileResult(t, logfile, file_open, stdout)
              IN  /\ logfile' = r.logfile
                  /\ file_open' = r.file_open
                  /\ stdout' = r.stdout
                  /\ traced' = Append(traced, t)
                  /\ pc' = IF pc = "log_start" THEN "load" ELSE "done"
                  /\ UNCHANGED <<error, full, X, y, samplers, i, label, res_x, res_y,
                                 title, y_pred, scores, trace>>

\* load_data(), set_attack_category_count(), encoding and scaling.  read_csv
\* can raise before self.full is assigned (line 149); what follows the
\* assignment (shape, the category count, encoding, scaling) can raise with
\* self.full already holding the loaded table.
LoadData ==
    /\ pc = "load"
    /\ \E o \in {"read_raises", "later_raises", "ok"}, ds \in Datasets :
         IF o = "read_raises" THEN Abort("io")
         ELSE /\ full' = ds
              /\ pc' = IF o = "ok" THEN "set_X" ELSE "aborted"
              /\ error' = IF o = "ok" THEN error ELSE "io"
              /\ UNCHANGED <<logvars, X, y, samplers, i, label, resvars,
                             scores, trace>>

\* set_X(): the scale_cols columns of self.full.
SetX ==
    /\ pc = "set_X"
    /\ X' = [cols |-> scale_cols, rows |-> [k \in 1..Len(full) |-> k]]
    /\ pc' = "samplers"
    /\ UNCHANGED <<error, logvars, full, y, samplers, i, label, resvars, scores, trace>>

\* The tuple of the for statement is built, and the first sampler taken.
BuildSamplers ==
    /\ pc = "samplers"
    /\ samplers' = SamplerTuple
    /\ i' = 1
    /\ pc' = "fine"
    /\ UNCHANGED <<error, logvars, datavars, label, resvars, scores, trace>>

\* label = ...; self.set_y(label)
SetY ==
    /\ pc \in {"fine", "coarse"}
    /\ label' = IF pc = "fine" THEN Labels[1] ELSE Labels[2]
    /\ y' = Column(full, label')
    /\ trace' = Append(trace, <<"set_y", i, label'>>)
    /\ pc' = "sample"
    /\ UNCHANGED <<error, logvars, full, X, samplers, i, resvars, scores>>

\* res_x, res_y, title = self.sample(sampler)
Sample ==
    /\ pc = "sample"
    /\ \E o \in SampleOutcomes(samplers[i], y), seed \in SeedsOf(samplers[i]) :
         IF o = "raise" THEN Abort("resample")
         ELSE LET r == fit_resample(samplers[i], X, y, seed)
              IN  /\ res_x' = r[1]
                  /\ res_y' = r[2]
                  /\ title' = Title(samplers[i])
                  /\ trace' = Append(trace, <<"sample", i, label>>)
                  /\ pc' = "score"
                  /\ UNCHANGED <<error, logvars, datavars, samplers, i, label,
                                 y_pred, scores>>

\* Where the loop goes after model_and_score returned.
AfterScore ==
    IF label = Labels[1] THEN pc' = "plot" /\ i' = i
    ELSE IF i < Len(samplers) THEN pc' = "fine" /\ i' = i + 1
    ELSE pc' = "log_end" /\ i' = i

\* self.model_and_score(res_x, res_y, title, label): cross_val_score on
\* (res_x, res_y), cross_val_predict on (res_x, self.y), the confusion matrix.
ModelAndScoreSwallow ==
    /\ pc = "score"
    /\ \E o \in {"ok", "raise"} :
         /\ error' = IF o = "raise" \/ Len(res_x.rows) # Len(cross_val_predict_y)
                     THEN "score" ELSE error
         /\ y_pred' = [k \in 1..Len(res_x.rows) |-> "pred"]
         /\ trace' = Append(trace, <<"model_and_score", i, label>>)
         /\ AfterScore
         /\ UNCHANGED <<logvars, datavars, samplers, label, res_x, res_y, title, scores>>
ModelAndScore ==
    /\ pc = "score"
    /\ \E o \in {"ok", "raise"} :
         IF o = "raise" \/ Len(res_x.rows) # Len(cross_val_predict_y)
         THEN Abort("score")
         ELSE /\ y_pred' = [k \in 1..Len(res_x.rows) |-> "pred"]
              /\ trace' = Append(trace, <<"model_and_score", i, label>>)
              /\ AfterScore
              /\ UNCHANGED <<error, logvars, datavars, samplers, label, res_x, res_y,
                             title, scores>>

\* res_x.attack_category.value_counts().plot(...); plt.show()
Plot ==
    /\ pc = "plot"
    /\ IF "attack_category" \in res_x.cols
       THEN /\ trace' = Append(trace, <<"plot", i, label>>)
            /\ pc' = "coarse"
            /\ UNCHANGED <<error, logvars, datavars, samplers, i, label, resvars, scores>>
       ELSE Abort("plot")

Next ==
    \/ LogFile
    \/ LoadData
    \/ SetX
    \/ BuildSamplers
    \/ SetY
    \/ Sample
    \/ ModelAndScore
    \/ Plot

\* The state in which Sampling() starts.
Init ==
    /\ pc = "log_start"
    /\ error = "none"
    /\ logfile = "None"
    /\ file_open = FALSE
    /\ stdout = "original"
    /\ traced = <<>>
    /\ full = <<>>
    /\ X = EmptyFrame
    /\ y = <<>>
    /\ samplers = <<>>
    /\ i = 0
    /\ label = "none"
    /\ res_x = EmptyFrame
    /\ res_y = <<>>
    /\ title = ""
    /\ y_pred = <<>>
    /\ scores = <<>>
    /\ trace = <<>>

\* The run of the program.
Spec == Init /\ [][Next]_vars

\* ------------------------------------------------------ reading the trace
Terminated == pc \in {"done", "aborted"}

InTrace(op, k, l) == \E n \in 1..Len(trace) : trace[n] = <<op, k, l>>

\* The keys (title, label) of the model_and_score calls that returned.
RECURSIVE ScoredKeys(_)
ScoredKeys(n) ==
    IF n > Len(trace) THEN <<>>
    ELSE (IF trace[n][1] = "model_and_score"
          THEN << <<Title(samplers[trace[n][2]]), trace[n][3]>> >> ELSE <<>>)
         \o ScoredKeys(n + 1)

\* The calls of set_y, sample and model_and_score that returned.
RECURSIVE Steps(_)
Steps(n) ==
    IF n > Len(trace) THEN <<>>
    ELSE (IF trace[n][1] = "plot" THEN <<>> ELSE <<trace[n]>>) \o Steps(n + 1)

\* The calls a complete run makes: strategy outer, label inner, and for each
\* pair set_y, sample, model_and_score.
RECURSIVE ExpectedSteps(_)
ExpectedSteps(k) ==
    IF k > Len(SamplerTuple) THEN <<>>
    ELSE << <<"set_y", k, Labels[1]>>, <<"sample", k, Labels[1]>>,
            <<"model_and_score", k, Labels[1]>>,
            <<"set_y", k, Labels[2]>>, <<"sample", k, Labels[2]>>,
            <<"model_and_score", k, Labels[2]>> >> \o ExpectedSteps(k + 1)

IsPrefix(s, t) == Len(s) <= Len(t) /\ \A n \in 1..Len(s) : s[n] = t[n]

\* ------------------------------------------------------------------ claims

\* C1: the ledger self.scores holds one key (strategy name, label name) per
\* scored pair, in the order the pairs were scored, and 2K = 16 keys once
\* the run has completed.
C1_LedgerHoldsEveryScore ==
    /\ scores = ScoredKeys(1)
    /\ (pc = "done" => Len(scores) = 2 * Len(samplers))

\* C2: the display names sample() computes for the strategies of the tuple
\* are pairwise distinct, so no key (name, label) is produced twice.
C2_DistinctNames ==
    \A a, b \in 1..Len(samplers) : a # b => Title(samplers[a]) # Title(samplers[b])

\* C3: the calls follow the fixed order (strategy outer, attack_category
\* before target, set_y then sample then model_and_score), and a run that
\* entered the loop and in which neither resample nor scoring raised ends
\* only when all 16 pairs were scored once.
C3_LoopOrder ==
    /\ IsPrefix(Steps(1), ExpectedSteps(1))
    /\ (Terminated /\ samplers # <<>> /\ error \notin {"resample", "score"}
            => Steps(1) = ExpectedSteps(1))

\* C5: the bar chart is rendered before the coarse label is selected, and
\* rendering has no bearing on what follows: a run never ends between the
\* fine-grained scoring of a strategy and its coarse-label evaluation unless
\* resample or scoring raised.
C5_ChartHarmless ==
    \A k \in 1..Len(samplers) :
        /\ (InTrace("set_y", k, Labels[2]) => InTrace("plot", k, Labels[1]))
        /\ (Terminated /\ InTrace("model_and_score", k, Labels[1])
                /\ ~InTrace("model_and_score", k, Labels[2])
              => error \in {"resample", "score"})

\* C6: sample(Original()) returns exactly (self.X, self.y), with title
\* 'Original', and never raises.
C6_IdentityBaseline ==
    /\ (pc = "score" /\ samplers[i].cls = "Original"
            => res_x = X /\ res_y = y /\ title = "Original")
    /\ (error = "resample" => samplers[i].cls # "Original")

C6_Witness ==
    /\ pc = "score"
    /\ samplers[i].cls = "Original"
    /\ label = Labels[1]
    /\ \E c \in Classes(y) : ClassCount(y, c) < MaxCount(y)

\* C7: an error raised by resample or by scoring is not caught: the run is
\* over in the iteration that raised, nothing happens after it, and the
\* 'Finished' step is not reached.
C7_ErrorsEndTheRun ==
    /\ [](error # "none" => pc = "aborted")
    /\ [](error = "resample" => trace[Len(trace)] = <<"set_y", i, label>>)
    /\ [](error = "score" => trace[Len(trace)] = <<"sample", i, label>>)
    /\ [][pc # "aborted"]_vars

C7_Witness ==
    /\ pc = "aborted"
    /\ error = "score"
    /\ i < Len(samplers)
    /\ label = Labels[1]
    /\ trace[Len(trace)] = <<"sample", i, label>>

\* C9: every strategy that is randomized was constructed with a fixed seed,
\* so the resampled pair of a (strategy, label) iteration is the same in
\* every run on the same inputs.
C9_Reproducible ==
    /\ \A k \in 1..Len(samplers) : samplers[k].cls # "Original" => samplers[k].seeded
    /\ (pc = "sample" => Cardinality(Resamples(samplers[i], X, y)) = 1)

\* C10: a run that an error of the loop ended while standard output was
\* redirected keeps the redirection: the second log_file() call was not
\* made, standard output is the log file, and the file is open.
C10_RedirectionLeft ==
    pc = "aborted" /\ error \in {"resample", "score", "plot"} /\ traced[1] = "off"
        => Len(traced) = 1 /\ stdout = "logfile" /\ file_open /\ logfile = "file"

C10_Witness ==
    /\ pc = "aborted"
    /\ error = "score"
    /\ stdout = "logfile"
    /\ file_open
=============================================================================
